---- MODULE Spec2Model ----
(***************************************************************************)
(* The Hidden Number Problem notebook: the MSB oracle, the lattice basis,  *)
(* basis reduction, Babai's nearest plane loop and the recovery of alpha.  *)
(* Rationals (Sage's QQ) are pairs <<numerator, denominator>> in lowest    *)
(* terms with a positive denominator; vectors are sequences of rationals,  *)
(* matrices are sequences of rows.                                         *)
(***************************************************************************)
EXTENDS Integers, Sequences, FiniteSets, TLC

\* Largest modulus the model draws p from.
MaxP == 7
\* Largest leak parameter k the model draws.
MaxK == 3
\* Largest modulus for which the solver is run on every target vector.
MaxSolveP == 5
\* Largest modulus the parameters are derived for, besides the notebook's own.
MaxParamP == 300
\* Largest prime factor of the modulus N of the blind voting cell.
MaxVoteP == 10
\* Largest safe prime p of the Schnorr identification cell.
MaxSchnorrP == 11
\* Largest safe prime p of the cell that proves knowledge of a representation.
MaxGeneralP == 5
\* Largest number l of bases in a representation.
MaxL == 2
\* The challenge length k of the Schnorr cells: challenges are in 1..2^k.
MaxChallengeBits == 3
\* Largest number of oracle queries d the model draws.
MaxD == 2
\* Largest secret prime of the signature cell.
MaxFiatP == 7
\* Number of messages the signature cell signs.
MaxMessages == 2
\* Number of calls made on one Voter.
MaxCalls == 5
\* Largest vote and largest signed blinded vote passed to one Voter.
MaxVote == 2

VARIABLES
    p,                \* the prime modulus (global)
    k,                \* the number of significant bits revealed (global)
    d,                \* the number of oracle queries (global)
    alpha,            \* the hidden scalar captured by create_oracle
    pc,               \* position of the solving cell
    random_t,         \* the t drawn by the current oracle() call
    z,                \* the candidate last drawn by msb
    inputs,           \* the t values returned so far
    answers,          \* the a values returned so far
    lattice,          \* build_basis(inputs)
    u,                \* vector(ZZ, answers + [0])
    BL,               \* the basis LLL() works on, and at its end basis.LLL()
    lll_k,            \* the row LLL() is working on
    G,                \* BL.gram_schmidt()[0]
    small,            \* the residual of the nearest plane loop
    i,                \* the loop index (rows i..1 are still to be processed)
    v,                \* the list approximate_closest_vector returns
    recovered_alpha,  \* (v[-1] * p) % p, or None
    err,              \* the exception that ended the cell, or "none"
    attempt,          \* the p, k, d in force when create_oracle(alpha) was called
    voting,           \* the blind voting cell: signer, voter and verifier
    schnorr,          \* one round of run_protocol(): prover and verifier
    fiat              \* one round of the signature cell: signer, verifier, md5

vars == <<p, k, d, alpha, pc, random_t, z, inputs, answers, lattice, u, BL, lll_k, G,
          small, i, v, recovered_alpha, err, attempt, voting, schnorr, fiat>>

\* The state of the Hidden Number Problem cells.
hnp == <<p, k, d, alpha, pc, random_t, z, inputs, answers, lattice, u, BL, lll_k, G,
         small, i, v, recovered_alpha, err, attempt>>

\* The state of the other cells, which the Hidden Number Problem cells never touch.
others == <<attempt, voting, schnorr, fiat>>

\* A cell that is not being run.
Off == [pc |-> "off"]

None == -1

----------------------------------------------------------------------------
(* Integers *)

Abs(x) == IF x < 0 THEN -x ELSE x

RECURSIVE GcdNat(_, _)
GcdNat(a, b) == IF b = 0 THEN a ELSE GcdNat(b, a % b)

Gcd(a, b) == GcdNat(Abs(a), Abs(b))

RECURSIVE Pow(_, _)
Pow(b, e) == IF e = 0 THEN 1 ELSE b * Pow(b, e - 1)

IsPrime(q) == q > 1 /\ \A m \in 2..(q - 1) : q % m # 0

\* ceil(log(x, 2)): the least e with 2^e >= x.
RECURSIVE CeilLog2From(_, _)
CeilLog2From(x, e) == IF Pow(2, e) >= x THEN e ELSE CeilLog2From(x, e + 1)

CeilLog2(x) == CeilLog2From(x, 0)

\* next_prime(x): the least prime above x.
RECURSIVE next_prime(_)
next_prime(x) == IF IsPrime(x + 1) THEN x + 1 ELSE next_prime(x + 1)

\* ceil(sqrt(x)): the least s with s^2 >= x.
RECURSIVE CeilSqrtFrom(_, _)
CeilSqrtFrom(x, s) == IF s * s >= x THEN s ELSE CeilSqrtFrom(x, s + 1)

CeilSqrt(x) == CeilSqrtFrom(x, 0)

\* floor(sqrt(x)) in place of ceil(sqrt(x)).
FloorSqrt(x) == IF CeilSqrt(x) * CeilSqrt(x) = x THEN CeilSqrt(x) ELSE CeilSqrt(x) - 1

\* n = ceil(log(p, 2))
DerivedN(pp) == CeilLog2(pp)

\* k with the square root rounded down.
DerivedKFloor(nn) == FloorSqrt(nn) + CeilLog2(nn)

\* k = ceil(sqrt(n)) + ceil(log(n, 2))
DerivedK(nn) == CeilSqrt(nn) + CeilLog2(nn)

\* d = 2 * ceil(sqrt(n))
DerivedD(nn) == 2 * CeilSqrt(nn)

lcm(a, b) == (a * b) \div Gcd(a, b)

\* b^e in Zmod(m), by squaring.
RECURSIVE PowMod(_, _, _)
PowMod(b, e, m) ==
    IF e = 0 THEN 1 % m
    ELSE LET h == PowMod(b, e \div 2, m)
         IN  IF e % 2 = 0 THEN (h * h) % m ELSE (((h * h) % m) * b) % m

----------------------------------------------------------------------------
(* Exact rationals *)

Rat(n, m) ==
    LET g == Gcd(n, m)
        s == IF m < 0 THEN -1 ELSE 1
    IN  <<s * (n \div g), s * (m \div g)>>

QQ(n) == <<n, 1>>

RNeg(a) == <<-a[1], a[2]>>

RAdd(a, b) ==
    LET g == Gcd(a[2], b[2])
    IN  Rat(a[1] * (b[2] \div g) + b[1] * (a[2] \div g), (a[2] \div g) * b[2])

RSub(a, b) == RAdd(a, RNeg(b))

RMul(a, b) ==
    LET g1 == Gcd(a[1], b[2])
        g2 == Gcd(b[1], a[2])
    IN  IF a[1] = 0 \/ b[1] = 0 THEN <<0, 1>>
        ELSE <<(a[1] \div g1) * (b[1] \div g2), (a[2] \div g2) * (b[2] \div g1)>>

RInv(a) == IF a[1] < 0 THEN <<-a[2], -a[1]>> ELSE <<a[2], a[1]>>

RDiv(a, b) == RMul(a, RInv(b))

\* a < b, by integer parts and then the inverted fractional parts (no product
\* of a numerator and a denominator is formed).
RECURSIVE RLt(_, _)
RLt(a, b) ==
    LET qa == a[1] \div a[2]
        qb == b[1] \div b[2]
        ra == a[1] - qa * a[2]
        rb == b[1] - qb * b[2]
    IN  IF qa # qb THEN qa < qb
        ELSE IF rb = 0 THEN FALSE
        ELSE IF ra = 0 THEN TRUE
        ELSE RLt(<<b[2], rb>>, <<a[2], ra>>)

RLe(a, b) == ~RLt(b, a)

RAbs(a) == <<Abs(a[1]), a[2]>>

IsInt(a) == a[2] = 1

\* Rational.round(): to the nearest integer, halves away from zero.
RRound(a) ==
    IF a[1] >= 0 THEN (2 * a[1] + a[2]) \div (2 * a[2])
    ELSE -((2 * (-a[1]) + a[2]) \div (2 * a[2]))

----------------------------------------------------------------------------
(* Vectors and matrices over QQ *)

RECURSIVE DotFrom(_, _, _)
DotFrom(x, y, j) ==
    IF j > Len(x) THEN <<0, 1>>
    ELSE RAdd(RMul(x[j], y[j]), DotFrom(x, y, j + 1))

Dot(x, y) == DotFrom(x, y, 1)

\* The sequence with the entries of f, an explicit tuple: TLC would keep
\* [j \in 1..n |-> e] unevaluated and compute e again at every use.
Vector(f) == f \o <<>>

VSub(x, y) == Vector([j \in 1..Len(x) |-> RSub(x[j], y[j])])

VScale(x, c) == Vector([j \in 1..Len(x) |-> RMul(x[j], c)])

VecQQ(x) == Vector([j \in 1..Len(x) |-> QQ(x[j])])

----------------------------------------------------------------------------
(* The oracle *)

\* msb's test without abs(): `query - z < p / 2^(k+1)`.
MsbAcceptsNoAbs(pp, kk, query, zz) ==
    RLt(QQ(query - zz), Rat(pp, Pow(2, kk + 1)))

\* 2 ^ m read as Python's exclusive or, as it is outside Sage's preparser.
Xor2(m) == IF (m \div 2) % 2 = 1 THEN m - 2 ELSE m + 2

\* msb's test with `^` as exclusive or (a zero divisor raises: no z is accepted).
MsbAcceptsXor(pp, kk, query, zz) ==
    /\ Xor2(kk + 1) # 0
    /\ RLt(QQ(Abs(query - zz)), Rat(pp, Xor2(kk + 1)))

\* msb's test with `/` as integer division, as it is on Python integers.
MsbAcceptsFloor(pp, kk, query, zz) ==
    Abs(query - zz) < pp \div Pow(2, kk + 1)

\* msb's test `abs(query - z) < p / 2^(k+1)`, an exact rational comparison.
MsbAccepts(pp, kk, query, zz) ==
    RLt(QQ(Abs(query - zz)), Rat(pp, Pow(2, kk + 1)))

\* The argument without the reduction: alpha * random_t.
OracleQueryUnreduced(a, t, pp) == a * t

\* The argument oracle() passes to msb.
OracleQuery(a, t, pp) == (a * t) % pp

----------------------------------------------------------------------------
(* build_basis *)

\* [0] * (d+1) with p at position j (1-based here, 0-based in the source).
PVector(pp, dd, j) == Vector([c \in 1..(dd + 1) |-> IF c = j THEN QQ(pp) ELSE QQ(0)])

\* The last row with 1/p as integer division: list(oracle_inputs) + [1 // p].
LastRowFloor(pp, oracle_inputs) == Append(VecQQ(oracle_inputs), QQ(1 \div pp))

\* list(oracle_inputs) + [QQ(1)/QQ(p)]
LastRow(pp, oracle_inputs) == Append(VecQQ(oracle_inputs), RDiv(QQ(1), QQ(pp)))

\* The list basis_vectors handed to Matrix(QQ, .).
BasisVectors(pp, dd, oracle_inputs) ==
    Append(Vector([j \in 1..dd |-> PVector(pp, dd, j)]), LastRow(pp, oracle_inputs))

\* A matrix constructor that takes rows of any lengths.
MatrixAcceptsRagged(rows) == TRUE

\* Matrix(QQ, rows) accepts a list of rows of one length, and raises otherwise.
MatrixAccepts(rows) == \A r \in 1..Len(rows) : Len(rows[r]) = Len(rows[1])

----------------------------------------------------------------------------
(* Gram-Schmidt and LLL *)

\* b minus its projections on prev[j..]: one row of gram_schmidt().
RECURSIVE Orthogonalize(_, _, _, _)
Orthogonalize(b, prev, j, acc) ==
    IF j > Len(prev) THEN acc
    ELSE Orthogonalize(b, prev, j + 1,
            VSub(acc, VScale(prev[j], RDiv(Dot(b, prev[j]), Dot(prev[j], prev[j])))))

\* The first m rows of the Gram-Schmidt orthogonalization of B (not normalized).
RECURSIVE GramSchmidtUpTo(_, _)
GramSchmidtUpTo(B, m) ==
    IF m = 0 THEN <<>>
    ELSE LET prev == GramSchmidtUpTo(B, m - 1)
         IN  Append(prev, Orthogonalize(B[m], prev, 1, B[m]))

gram_schmidt(B) == GramSchmidtUpTo(B, Len(B))

\* The Lovasz parameter delta of LLL() (Sage's default).
Delta == <<99, 100>>

\* The size-reduction parameter: coefficients are brought into [-1/2, 1/2].
Eta == <<1, 2>>

\* Size reduction that subtracts mu times the row, not round(mu) times the row.
RECURSIVE SizeReduceRowExact(_, _, _, _)
SizeReduceRowExact(b, B, Gs, j) ==
    IF j = 0 THEN b
    ELSE LET mu == RDiv(Dot(b, Gs[j]), Dot(Gs[j], Gs[j]))
             b1 == IF RLt(<<1, 2>>, RAbs(mu)) THEN VSub(b, VScale(B[j], mu)) ELSE b
         IN  SizeReduceRowExact(b1, B, Gs, j - 1)

\* Size reduction that rounds the coefficient down, not to the nearest integer.
RECURSIVE SizeReduceRowFloor(_, _, _, _)
SizeReduceRowFloor(b, B, Gs, j) ==
    IF j = 0 THEN b
    ELSE LET mu == RDiv(Dot(b, Gs[j]), Dot(Gs[j], Gs[j]))
             b1 == IF RLt(Eta, RAbs(mu)) THEN VSub(b, VScale(B[j], QQ(mu[1] \div mu[2]))) ELSE b
         IN  SizeReduceRowFloor(b1, B, Gs, j - 1)

\* Row b size-reduced against rows j, j-1, ..., 1 of B (Gs their orthogonal rows).
RECURSIVE SizeReduceRow(_, _, _, _)
SizeReduceRow(b, B, Gs, j) ==
    IF j = 0 THEN b
    ELSE LET mu == RDiv(Dot(b, Gs[j]), Dot(Gs[j], Gs[j]))
             b1 == IF RLt(Eta, RAbs(mu)) THEN VSub(b, VScale(B[j], QQ(RRound(mu)))) ELSE b
         IN  SizeReduceRow(b1, B, Gs, j - 1)

\* |G_kk|^2 >= (delta - mu_{kk,kk-1}^2) |G_{kk-1}|^2, both sides divided by
\* |G_{kk-1}|^2.
Lovasz(b, Gs, kk) ==
    LET Gprev == Gs[kk - 1]
        mu    == RDiv(Dot(b, Gprev), Dot(Gprev, Gprev))
        Gk    == Orthogonalize(b, Gs, 1, b)
    IN  RLe(Delta, RAdd(RDiv(Dot(Gk, Gk), Dot(Gprev, Gprev)), RMul(mu, mu)))

SwapRows(B, a, b) == [B EXCEPT ![a] = B[b], ![b] = B[a]]

\* One round of LLL's loop on row kk: the basis after it.
LLLBasis(B, kk) ==
    LET Gs == GramSchmidtUpTo(B, kk - 1)
        b  == SizeReduceRow(B[kk], B, Gs, kk - 1)
        B1 == [B EXCEPT ![kk] = b]
    IN  IF Lovasz(b, Gs, kk) THEN B1 ELSE SwapRows(B1, kk, kk - 1)

\* One round of LLL's loop on row kk: the row the next round works on.
LLLIndex(B, kk) ==
    LET Gs == GramSchmidtUpTo(B, kk - 1)
        b  == SizeReduceRow(B[kk], B, Gs, kk - 1)
    IN  IF Lovasz(b, Gs, kk) THEN kk + 1
        ELSE IF kk > 2 THEN kk - 1 ELSE 2

----------------------------------------------------------------------------
(* The nearest plane loop and the recovery *)

\* The coefficient without the division by G[i] * G[i]: c = QQ(small * G[i]).round().
PlaneCoefficientUnnormalised(sm, Gi) == RRound(Dot(sm, Gi))

\* The coefficient rounded down: c = c.floor().
PlaneCoefficientFloor(sm, Gi) ==
    LET c == RDiv(Dot(sm, Gi), Dot(Gi, Gi)) IN c[1] \div c[2]

\* c = QQ(small * G[i]) / QQ(G[i] * G[i]); c = c.round()
PlaneCoefficient(sm, Gi) == RRound(RDiv(Dot(sm, Gi), Dot(Gi, Gi)))

\* The step without c = c.round(): small -= BL[i] * c with the exact quotient.
PlaneStepExact(sm, BLi, Gi) ==
    VSub(sm, VScale(BLi, RDiv(Dot(sm, Gi), Dot(Gi, Gi))))

\* small -= BL[i] * c
PlaneStep(sm, BLi, Gi) == VSub(sm, VScale(BLi, QQ(PlaneCoefficient(sm, Gi))))

\* x.coefficients(): the nonzero entries of x, in order of position.
coefficients(x) == SelectSeq(x, LAMBDA e : e[1] # 0)

\* The inverse of a modulo m, or 0 when a is not invertible.
InverseMod(a, m) ==
    IF \E b \in 1..(m - 1) : (a * b) % m = 1
    THEN CHOOSE b \in 1..(m - 1) : (a * b) % m = 1
    ELSE 0

\* Rational % Integer: numerator times the inverse of the denominator, mod m.
RModDefined(a, m) == InverseMod(a[2] % m, m) # 0 \/ m = 1

RMod(a, m) == ((a[1] % m) * InverseMod(a[2] % m, m)) % m

----------------------------------------------------------------------------
(* The solving cell *)

Primes == {q \in 3..MaxP : IsPrime(q)}

\* The state before the first oracle call: alpha = randint(1, p-1),
\* oracle = create_oracle(alpha).
Init ==
    /\ p \in Primes
    /\ k \in 0..MaxK
    /\ d \in 1..MaxD
    /\ alpha \in 1..(p - 1)
    /\ pc = "oracle"
    /\ random_t = 0
    /\ z = 0
    /\ inputs = <<>>
    /\ answers = <<>>
    /\ lattice = <<>>
    /\ u = <<>>
    /\ BL = <<>>
    /\ lll_k = 0
    /\ G = <<>>
    /\ small = <<>>
    /\ i = 0
    /\ v = <<>>
    /\ recovered_alpha = None
    /\ err = "none"
    /\ attempt = [p |-> p, k |-> k, d |-> d]
    /\ voting = Off
    /\ schnorr = Off
    /\ fiat = Off

\* oracle(): random_t = randint(1, p-1), then msb((alpha * random_t) % p) starts.
\* The number of calls is that of `for _ in range(d)`, which reads d once, when
\* the list comprehension starts.
OracleCall ==
    /\ pc = "oracle"
    /\ Len(inputs) < attempt.d
    /\ \E t \in 1..(p - 1) : random_t' = t
    /\ pc' = "msb"
    /\ UNCHANGED others
    /\ UNCHANGED <<p, k, d, alpha, z, inputs, answers, lattice, u, BL, lll_k, G, small, i,
                   v, recovered_alpha, err>>

\* One round of msb's loop that draws a z the test rejects.
MsbReject ==
    /\ pc = "msb"
    /\ \E zz \in 1..(p - 1) :
          /\ ~MsbAccepts(p, k, OracleQuery(alpha, random_t, p), zz)
          /\ z' = zz
    /\ UNCHANGED others
    /\ UNCHANGED <<p, k, d, alpha, pc, random_t, inputs, answers, lattice, u, BL, lll_k, G,
                   small, i, v, recovered_alpha, err>>

\* The round of msb's loop that breaks: oracle() returns (random_t, z).
MsbReturn ==
    /\ pc = "msb"
    /\ \E zz \in 1..(p - 1) :
          /\ MsbAccepts(p, k, OracleQuery(alpha, random_t, p), zz)
          /\ z' = zz
          /\ inputs' = Append(inputs, random_t)
          /\ answers' = Append(answers, zz)
    /\ pc' = IF Len(inputs) + 1 = attempt.d THEN "build" ELSE "oracle"
    /\ UNCHANGED others
    /\ UNCHANGED <<p, k, d, alpha, random_t, lattice, u, BL, lll_k, G, small, i, v,
                   recovered_alpha, err>>

\* lattice = build_basis(inputs); u = vector(ZZ, list(answers) + [0])
BuildBasis ==
    /\ pc = "build"
    /\ IF MatrixAccepts(BasisVectors(p, d, inputs))
       THEN /\ lattice' = BasisVectors(p, d, inputs)
            /\ u' = VecQQ(Append(answers, 0))
            /\ pc' = "solve"
            /\ err' = err
       ELSE /\ err' = "ValueError"
            /\ pc' = "error"
            /\ UNCHANGED <<lattice, u>>
    /\ UNCHANGED others
    /\ UNCHANGED <<p, k, d, alpha, random_t, z, inputs, answers, BL, lll_k, G, small, i, v,
                   recovered_alpha>>

\* approximate_closest_vector(lattice, u) is called: basis.LLL() starts on a
\* copy of the basis.
ReduceStart ==
    /\ pc = "solve"
    /\ BL' = lattice
    /\ lll_k' = 2
    /\ pc' = "lll"
    /\ UNCHANGED others
    /\ UNCHANGED <<p, k, d, alpha, random_t, z, inputs, answers, lattice, u, G, small,
                   i, v, recovered_alpha, err>>

\* One round of LLL's loop.
LLLStep ==
    /\ pc = "lll"
    /\ lll_k <= Len(BL)
    /\ BL' = LLLBasis(BL, lll_k)
    /\ lll_k' = LLLIndex(BL, lll_k)
    /\ UNCHANGED others
    /\ UNCHANGED <<p, k, d, alpha, pc, random_t, z, inputs, answers, lattice, u, G,
                   small, i, v, recovered_alpha, err>>

\* LLL() returns; G, _ = BL.gram_schmidt(); _, n = BL.dimensions();
\* small = vector(ZZ, v)
ReduceDone ==
    /\ pc = "lll"
    /\ lll_k > Len(BL)
    /\ G' = gram_schmidt(BL)
    /\ small' = u
    /\ i' = Len(BL[1])
    /\ pc' = "plane"
    /\ UNCHANGED others
    /\ UNCHANGED <<p, k, d, alpha, random_t, z, inputs, answers, lattice, u, BL, lll_k,
                   v, recovered_alpha, err>>

\* The pass with small bound to the caller's vector and updated in place:
\* small = v; small -= BL[i] * c writes through to the target.
PlaneLoopInPlace ==
    /\ pc = "plane"
    /\ i > 0
    /\ small' = PlaneStep(small, BL[i], G[i])
    /\ u' = small'
    /\ i' = i - 1
    /\ UNCHANGED others
    /\ UNCHANGED <<p, k, d, alpha, pc, random_t, z, inputs, answers, lattice, BL, lll_k,
                   G, v, recovered_alpha, err>>

\* One pass of `for i in reversed(range(n))`.
PlaneLoop ==
    /\ pc = "plane"
    /\ i > 0
    /\ small' = PlaneStep(small, BL[i], G[i])
    /\ i' = i - 1
    /\ UNCHANGED others
    /\ UNCHANGED <<p, k, d, alpha, pc, random_t, z, inputs, answers, lattice, u, BL, lll_k,
                   G, v, recovered_alpha, err>>

\* return (v - small).coefficients()
PlaneReturn ==
    /\ pc = "plane"
    /\ i = 0
    /\ v' = coefficients(VSub(u, small))
    /\ pc' = "recover"
    /\ UNCHANGED others
    /\ UNCHANGED <<p, k, d, alpha, random_t, z, inputs, answers, lattice, u, BL, lll_k, G,
                   small, i, recovered_alpha, err>>

\* recovered_alpha = (v[-1] * p) % p; assert recovered_alpha == alpha
Recover ==
    /\ pc = "recover"
    /\ IF v = <<>>
       THEN /\ err' = "IndexError"
            /\ pc' = "error"
            /\ recovered_alpha' = recovered_alpha
       ELSE LET prod == RMul(v[Len(v)], QQ(p))
            IN  IF ~RModDefined(prod, p)
                THEN /\ err' = "ZeroDivisionError"
                     /\ pc' = "error"
                     /\ recovered_alpha' = recovered_alpha
                ELSE /\ recovered_alpha' = RMod(prod, p)
                     /\ err' = IF RMod(prod, p) = alpha THEN "none" ELSE "AssertionError"
                     /\ pc' = IF RMod(prod, p) = alpha THEN "done" ELSE "error"
    /\ UNCHANGED others
    /\ UNCHANGED <<p, k, d, alpha, random_t, z, inputs, answers, lattice, u, BL, lll_k, G,
                   small, i, v>>

Next ==
    \/ OracleCall
    \/ MsbReject
    \/ MsbReturn
    \/ BuildBasis
    \/ ReduceStart
    \/ LLLStep
    \/ ReduceDone
    \/ PlaneLoop
    \/ PlaneReturn
    \/ Recover

Spec == Init /\ [][Next]_vars

----------------------------------------------------------------------------
(* The oracle and build_basis alone *)

NextOracle ==
    \/ OracleCall
    \/ MsbReject
    \/ MsbReturn
    \/ BuildBasis

SpecOracle == Init /\ [][NextOracle]_vars

\* One call of oracle(), for every p, k and alpha.
InitOneCall == Init /\ d = 1

NextOneCall ==
    \/ OracleCall
    \/ MsbReject
    \/ MsbReturn

\* The call with fair draws of z: randint(1, p-1) is uniform, so a z that the
\* test accepts, when there is one, is eventually drawn.
SpecOracleFair == InitOneCall /\ [][NextOneCall]_vars /\ WF_vars(MsbReturn)

----------------------------------------------------------------------------
(* The oracle and build_basis while another cell rebinds the globals *)

\* Another cell (or another attempt) assigns the module-level names p, k and d
\* between two calls of this attempt: `p = ...`, `k = ...`, `d = ...`. The
\* other cell is run once per attempt.
RebindGlobals ==
    /\ pc \in {"oracle", "build"}
    /\ <<p, k, d>> = <<attempt.p, attempt.k, attempt.d>>
    /\ \E pp \in Primes, kk \in 0..MaxK, dd \in 1..MaxD :
          /\ <<pp, kk, dd>> # <<p, k, d>>
          /\ p' = pp
          /\ k' = kk
          /\ d' = dd
    /\ UNCHANGED <<alpha, pc, random_t, z, inputs, answers, lattice, u, BL, lll_k, G,
                   small, i, v, recovered_alpha, err>>
    /\ UNCHANGED others

NextShared ==
    \/ OracleCall
    \/ MsbReject
    \/ MsbReturn
    \/ BuildBasis
    \/ RebindGlobals

SpecShared == Init /\ [][NextShared]_vars

----------------------------------------------------------------------------
(* The parameter cells: n, k and d derived from p *)

\* The moduli the parameters are derived for: the small primes and the
\* notebook's p = next_prime(2^16).
ParamPrimes == {q \in 3..MaxParamP : IsPrime(q)} \cup {next_prime(Pow(2, 16))}

\* The state after `p = next_prime(...)`: k and d are not assigned yet.
InitParams ==
    /\ p \in ParamPrimes
    /\ k = None
    /\ d = None
    /\ alpha = None
    /\ pc = "params"
    /\ random_t = 0
    /\ z = 0
    /\ inputs = <<>>
    /\ answers = <<>>
    /\ lattice = <<>>
    /\ u = <<>>
    /\ BL = <<>>
    /\ lll_k = 0
    /\ G = <<>>
    /\ small = <<>>
    /\ i = 0
    /\ v = <<>>
    /\ recovered_alpha = None
    /\ err = "none"
    /\ attempt = [p |-> p, k |-> k, d |-> d]
    /\ voting = Off
    /\ schnorr = Off
    /\ fiat = Off

\* n = ceil(log(p, 2)); k = ceil(sqrt(n)) + ceil(log(n, 2)); d = 2 * ceil(sqrt(n))
DeriveParameters ==
    /\ pc = "params"
    /\ k' = DerivedK(DerivedN(p))
    /\ d' = DerivedD(DerivedN(p))
    /\ pc' = "derived"
    /\ UNCHANGED others
    /\ UNCHANGED <<p, alpha, random_t, z, inputs, answers, lattice, u, BL, lll_k, G,
                   small, i, v, recovered_alpha, err>>

NextParams == DeriveParameters

SpecParams == InitParams /\ [][NextParams]_vars

----------------------------------------------------------------------------
(* build_basis called on any list of query inputs, of length d or not *)

\* The lists of at most m values of 1..(q-1).
InputLists(q, m) == UNION {[1..len -> 1..(q - 1)] : len \in 0..m}

\* The state before `lattice = build_basis(inputs)`, for d and a transcript of
\* an oracle whose answers are exact (alpha = 1, so that a = t).
InitBuild ==
    /\ p \in Primes
    /\ k = CeilLog2(p)
    /\ d \in 1..MaxD
    /\ alpha = 1
    /\ pc = "build"
    /\ random_t = 0
    /\ z = 0
    /\ inputs \in InputLists(p, MaxD + 1)
    /\ answers = inputs
    /\ lattice = <<>>
    /\ u = <<>>
    /\ BL = <<>>
    /\ lll_k = 0
    /\ G = <<>>
    /\ small = <<>>
    /\ i = 0
    /\ v = <<>>
    /\ recovered_alpha = None
    /\ err = "none"
    /\ attempt = [p |-> p, k |-> k, d |-> d]
    /\ voting = Off
    /\ schnorr = Off
    /\ fiat = Off

NextBuild == BuildBasis

SpecBuild == InitBuild /\ [][NextBuild]_vars

----------------------------------------------------------------------------
(* The solving cell with k set to n: the oracle leaks without noise *)

InitExact ==
    /\ p \in Primes
    /\ k = CeilLog2(p)
    /\ d \in 1..MaxD
    /\ alpha \in 1..(p - 1)
    /\ pc = "oracle"
    /\ random_t = 0
    /\ z = 0
    /\ inputs = <<>>
    /\ answers = <<>>
    /\ lattice = <<>>
    /\ u = <<>>
    /\ BL = <<>>
    /\ lll_k = 0
    /\ G = <<>>
    /\ small = <<>>
    /\ i = 0
    /\ v = <<>>
    /\ recovered_alpha = None
    /\ err = "none"
    /\ attempt = [p |-> p, k |-> k, d |-> d]
    /\ voting = Off
    /\ schnorr = Off
    /\ fiat = Off

SpecExact == InitExact /\ [][Next]_vars

----------------------------------------------------------------------------
(* approximate_closest_vector on the basis of any query inputs and any target *)

\* The state before `v = approximate_closest_vector(lattice, u)`, for every
\* list of d inputs and every list of d answers in 1..p-1.
InitSolve ==
    /\ p \in {q \in 3..MaxSolveP : IsPrime(q)}
    /\ k = 0
    /\ d \in 1..MaxD
    /\ alpha = 1
    /\ pc = "solve"
    /\ random_t = 0
    /\ z = 0
    /\ inputs \in [1..d -> 1..(p - 1)]
    /\ answers \in [1..d -> 1..(p - 1)]
    /\ lattice = BasisVectors(p, d, inputs)
    /\ u = VecQQ(Append(answers, 0))
    /\ BL = <<>>
    /\ lll_k = 0
    /\ G = <<>>
    /\ small = <<>>
    /\ i = 0
    /\ v = <<>>
    /\ recovered_alpha = None
    /\ err = "none"
    /\ attempt = [p |-> p, k |-> k, d |-> d]
    /\ voting = Off
    /\ schnorr = Off
    /\ fiat = Off

NextSolve ==
    \/ ReduceStart
    \/ LLLStep
    \/ ReduceDone
    \/ PlaneLoop
    \/ PlaneReturn
    \/ Recover

SpecSolve == InitSolve /\ [][NextSolve]_vars

----------------------------------------------------------------------------
(* The Hidden Number Problem cells at rest, while another notebook runs *)

HnpOff ==
    /\ p = 3
    /\ k = 0
    /\ d = 1
    /\ alpha = 1
    /\ pc = "off"
    /\ random_t = 0
    /\ z = 0
    /\ inputs = <<>>
    /\ answers = <<>>
    /\ lattice = <<>>
    /\ u = <<>>
    /\ BL = <<>>
    /\ lll_k = 0
    /\ G = <<>>
    /\ small = <<>>
    /\ i = 0
    /\ v = <<>>
    /\ recovered_alpha = None
    /\ err = "none"
    /\ attempt = [p |-> 3, k |-> 0, d |-> 1]

----------------------------------------------------------------------------
(* Blind voting: Authenticator, Voter, Verifier and the cell that runs them *)

\* Authenticator.e
AuthenticatorE == 65537

\* Authenticator.d = inverse_mod(self.e, lcm(p-1, q-1))
AuthenticatorD(pp, qq) == InverseMod(AuthenticatorE % lcm(pp - 1, qq - 1), lcm(pp - 1, qq - 1))

\* Voter.blind_vote: vote*(self.r^signer.e)
Blind(vote, r, e, N) == (vote * PowMod(r, e, N)) % N

\* Authenticator.sign: message^self.d
Sign(message, dd, N) == PowMod(message, dd, N)

\* Unblinding that multiplies by r, not by its inverse.
UnblindByR(signed_blinded_vote, r, N) == (signed_blinded_vote * r) % N

\* Voter.unblind_vote: signed_blinded_vote*self.r^-1
Unblind(signed_blinded_vote, r, N) == (signed_blinded_vote * InverseMod(r, N)) % N

\* Verifier.verify_vote: vote == signature^signer.e
VerifyVote(vote, signature, e, N) == vote = PowMod(signature, e, N)

\* The pairs of secret primes: distinct odd primes whose N has an exponent d.
VotePrimes ==
    {pq \in (3..MaxVoteP) \X (3..MaxVoteP) :
        /\ pq[1] < pq[2]
        /\ IsPrime(pq[1])
        /\ IsPrime(pq[2])
        /\ AuthenticatorD(pq[1], pq[2]) # 0}

\* signer = Authenticator(); jim = Voter(); verifier = Verifier();
\* jims_vote is any element of ZM.
InitVoting ==
    /\ HnpOff
    /\ schnorr = Off
    /\ fiat = Off
    /\ \E pq \in VotePrimes : \E vote \in 0..(pq[1] * pq[2] - 1) :
          voting = [pc |-> "blind", N |-> pq[1] * pq[2], e |-> AuthenticatorE,
                    d |-> AuthenticatorD(pq[1], pq[2]), r |-> None, drawn |-> None,
                    vote |-> vote, blind_vote |-> None, blind_signature |-> None,
                    signature |-> None, verified |-> FALSE, err |-> "none"]

\* jims_blind_vote = jim.blind_vote(signer, jims_vote)
BlindVote ==
    /\ voting.pc = "blind"
    /\ IF voting.r # None
       THEN voting' = [voting EXCEPT !.pc = "error", !.err = "AssertionError"]
       ELSE \E r \in 0..(voting.N - 1) :
              voting' = [voting EXCEPT !.r = r, !.drawn = r,
                            !.blind_vote = Blind(voting.vote, r, voting.e, voting.N),
                            !.pc = "sign"]
    /\ UNCHANGED <<hnp, schnorr, fiat>>

\* blind_signature = signer.sign(jims_blind_vote)
SignBlindVote ==
    /\ voting.pc = "sign"
    /\ voting' = [voting EXCEPT !.blind_signature = Sign(voting.blind_vote, voting.d, voting.N),
                                !.pc = "unblind"]
    /\ UNCHANGED <<hnp, schnorr, fiat>>

\* jims_vote_signature = jim.unblind_vote(blind_signature)
UnblindVote ==
    /\ voting.pc = "unblind"
    /\ IF voting.r = None
       THEN voting' = [voting EXCEPT !.pc = "error", !.err = "AssertionError"]
       ELSE IF InverseMod(voting.r, voting.N) = 0
       THEN voting' = [voting EXCEPT !.pc = "error", !.err = "ZeroDivisionError"]
       ELSE voting' = [voting EXCEPT !.signature = Unblind(voting.blind_signature, voting.r, voting.N),
                                     !.r = None,
                                     !.pc = "verify"]
    /\ UNCHANGED <<hnp, schnorr, fiat>>

\* assert(verifier.verify_vote(signer, jims_vote, jims_vote_signature))
AssertVerifyVote ==
    /\ voting.pc = "verify"
    /\ LET ok == VerifyVote(voting.vote, voting.signature, voting.e, voting.N)
       IN  voting' = [voting EXCEPT !.verified = ok,
                                    !.pc = IF ok THEN "done" ELSE "error",
                                    !.err = IF ok THEN "none" ELSE "AssertionError"]
    /\ UNCHANGED <<hnp, schnorr, fiat>>

NextVoting ==
    \/ BlindVote
    \/ SignBlindVote
    \/ UnblindVote
    \/ AssertVerifyVote

SpecVoting == InitVoting /\ [][NextVoting]_vars

(***************************************************************************)
(* One Voter called in any order: blind_vote and unblind_vote with any     *)
(* arguments, the caller going on after a call that raised.  last, outcome *)
(* and result record the latest call; lastok, rounds and stuck its history.*)
(***************************************************************************)

\* jim = Voter(): self.r = None
InitVoter ==
    /\ HnpOff
    /\ schnorr = Off
    /\ fiat = Off
    /\ \E pq \in VotePrimes :
          voting = [pc |-> "calls", N |-> pq[1] * pq[2], e |-> AuthenticatorE,
                    r |-> None, calls |-> 0, last |-> "none", outcome |-> "none",
                    result |-> None, lastok |-> "none", rounds |-> 0, stuck |-> FALSE]

\* blind_vote without assert(self.r is None).
CallBlindVoteUnchecked ==
    /\ voting.pc = "calls"
    /\ voting.calls < MaxCalls
    /\ \E vote \in 0..MaxVote : \E r \in 0..(voting.N - 1) :
          voting' = [voting EXCEPT !.calls = @ + 1, !.last = "blind",
                        !.r = r, !.outcome = "ok", !.lastok = "blind",
                        !.result = Blind(vote, r, voting.e, voting.N)]
    /\ UNCHANGED <<hnp, schnorr, fiat>>

\* jim.blind_vote(signer, vote)
CallBlindVote ==
    /\ voting.pc = "calls"
    /\ voting.calls < MaxCalls
    /\ \E vote \in 0..MaxVote :
          IF voting.r # None
          THEN voting' = [voting EXCEPT !.calls = @ + 1, !.last = "blind",
                             !.outcome = "AssertionError", !.result = None]
          ELSE \E r \in 0..(voting.N - 1) :
                 voting' = [voting EXCEPT !.calls = @ + 1, !.last = "blind",
                               !.r = r, !.outcome = "ok", !.lastok = "blind",
                               !.result = Blind(vote, r, voting.e, voting.N)]
    /\ UNCHANGED <<hnp, schnorr, fiat>>

\* jim.unblind_vote(signed_blinded_vote)
CallUnblindVote ==
    /\ voting.pc = "calls"
    /\ voting.calls < MaxCalls
    /\ \E signed_blinded_vote \in 0..MaxVote :
          IF voting.r = None
          THEN voting' = [voting EXCEPT !.calls = @ + 1, !.last = "unblind",
                             !.outcome = "AssertionError", !.result = None]
          ELSE IF InverseMod(voting.r, voting.N) = 0
          THEN voting' = [voting EXCEPT !.calls = @ + 1, !.last = "unblind",
                             !.outcome = "ZeroDivisionError", !.result = None,
                             !.stuck = TRUE]
          ELSE voting' = [voting EXCEPT !.calls = @ + 1, !.last = "unblind",
                             !.outcome = "ok", !.lastok = "unblind",
                             !.rounds = @ + 1, !.r = None,
                             !.result = Unblind(signed_blinded_vote, voting.r, voting.N)]
    /\ UNCHANGED <<hnp, schnorr, fiat>>

NextVoter ==
    \/ CallBlindVote
    \/ CallUnblindVote

SpecVoter == InitVoter /\ [][NextVoter]_vars

----------------------------------------------------------------------------
(* Schnorr identification, and proving knowledge of a representation *)

\* x.multiplicative_order() in Zmod(pp), for x a unit.
RECURSIVE OrderFrom(_, _, _)
OrderFrom(x, pp, e) == IF PowMod(x, e, pp) = 1 THEN e ELSE OrderFrom(x, pp, e + 1)

multiplicative_order(x, pp) == OrderFrom(x, pp, 1)

\* Zmod(pp).multiplicative_generator(): the least generator of the units.
RECURSIVE GeneratorFrom(_, _)
GeneratorFrom(pp, x) ==
    IF multiplicative_order(x, pp) = pp - 1 THEN x ELSE GeneratorFrom(pp, x + 1)

multiplicative_generator(pp) == GeneratorFrom(pp, 1)

\* The product of bases[j]^exps[j] over j >= from, in Zmod(pp).
RECURSIVE PowerProduct(_, _, _, _)
PowerProduct(bases, exps, pp, from) ==
    IF from > Len(bases) THEN 1 % pp
    ELSE (PowMod(bases[from], exps[from], pp) * PowerProduct(bases, exps, pp, from + 1)) % pp

\* respond with the sign flipped: r + challenge*s.
RespondPlus(rs, challenge, secret_keys, qq) ==
    [j \in 1..Len(rs) |-> (rs[j] + challenge * secret_keys[j]) % qq]

\* respond: r - challenge*s in Zq, for each (r, s).
Respond(rs, challenge, secret_keys, qq) ==
    [j \in 1..Len(rs) |-> (rs[j] - challenge * secret_keys[j]) % qq]

\* check_value = prover_public_key^challenge_number times the g^r.
CheckValue(public_key, challenge, bases, response, pp) ==
    (PowMod(public_key, challenge, pp) * PowerProduct(bases, response, pp, 1)) % pp

\* p = 2*q' + 1 with p and q' prime.
IsSafePrime(pp) == IsPrime(pp) /\ pp % 2 = 1 /\ IsPrime((pp - 1) \div 2)

\* The exponents x with gcd(x, p-1) = 1, for which g^x is taken as a base.
BaseExponents(pp) == {x \in 1..(pp - 1) : Gcd(x, pp - 1) = 1}

\* The state of a cell after its parameters and bases are set: p, g, q and,
\* in the second cell, the l bases gs (the first cell uses g alone).
SchnorrCells ==
    {[pc |-> "prover", cell |-> "schnorr", p |-> pp, g |-> multiplicative_generator(pp),
      q |-> pp - 1, k |-> MaxChallengeBits, gs |-> <<multiplicative_generator(pp)>>,
      secret_keys |-> <<>>, public_key |-> None, rs |-> <<>>, commitment |-> None,
      challenge_number |-> None, response |-> <<>>, checked |-> FALSE] :
        pp \in {x \in 5..MaxSchnorrP : IsSafePrime(x)}}
    \cup
    UNION {UNION {
        {[pc |-> "prover", cell |-> "general", p |-> pp, g |-> multiplicative_generator(pp),
          q |-> pp - 1, k |-> MaxChallengeBits,
          gs |-> [j \in 1..l |-> PowMod(multiplicative_generator(pp), xs[j], pp)],
          secret_keys |-> <<>>, public_key |-> None, rs |-> <<>>, commitment |-> None,
          challenge_number |-> None, response |-> <<>>, checked |-> FALSE] :
            xs \in [1..l -> BaseExponents(pp)]} :
        l \in 1..MaxL} :
      pp \in {x \in 5..MaxGeneralP : IsSafePrime(x)}}

InitSchnorr ==
    /\ HnpOff
    /\ voting = Off
    /\ fiat = Off
    /\ schnorr \in SchnorrCells

\* prover = SchnorrProver(); verifier = SchnorrVerifier(prover.public_key)
NewProver ==
    /\ schnorr.pc = "prover"
    /\ \E keys \in [1..Len(schnorr.gs) -> 0..(schnorr.q - 1)] :
          schnorr' = [schnorr EXCEPT !.secret_keys = keys,
                          !.public_key = PowerProduct(schnorr.gs, keys, schnorr.p, 1),
                          !.pc = "commit"]
    /\ UNCHANGED <<hnp, voting, fiat>>

\* t = prover.commit()
Commit ==
    /\ schnorr.pc = "commit"
    /\ \E rs \in [1..Len(schnorr.gs) -> 0..(schnorr.q - 1)] :
          schnorr' = [schnorr EXCEPT !.rs = rs,
                          !.commitment = PowerProduct(schnorr.gs, rs, schnorr.p, 1),
                          !.pc = "challenge"]
    /\ UNCHANGED <<hnp, voting, fiat>>

\* c = verifier.challenge(t)
Challenge ==
    /\ schnorr.pc = "challenge"
    /\ \E c \in 1..Pow(2, schnorr.k) :
          schnorr' = [schnorr EXCEPT !.challenge_number = c, !.pc = "respond"]
    /\ UNCHANGED <<hnp, voting, fiat>>

\* s = prover.respond(c)
ProverRespond ==
    /\ schnorr.pc = "respond"
    /\ schnorr' = [schnorr EXCEPT
          !.response = Respond(schnorr.rs, schnorr.challenge_number, schnorr.secret_keys,
                               schnorr.q),
          !.pc = "check"]
    /\ UNCHANGED <<hnp, voting, fiat>>

\* assert(verifier.check(s))
AssertCheck ==
    /\ schnorr.pc = "check"
    /\ LET ok == schnorr.commitment =
                    CheckValue(schnorr.public_key, schnorr.challenge_number, schnorr.gs,
                               schnorr.response, schnorr.p)
       IN  schnorr' = [schnorr EXCEPT !.checked = ok,
                                      !.pc = IF ok THEN "done" ELSE "error"]
    /\ UNCHANGED <<hnp, voting, fiat>>

NextSchnorr ==
    \/ NewProver
    \/ Commit
    \/ Challenge
    \/ ProverRespond
    \/ AssertCheck

SpecSchnorr == InitSchnorr /\ [][NextSchnorr]_vars

(***************************************************************************)
(* The Fiat-Shamir signature cell: NewCenter, Signer, Verifier, and the    *)
(* hash f, whose md5 digests are drawn the first time an input is hashed   *)
(* and looked up every later time.                                         *)
(***************************************************************************)

\* Signer.__init__ with the public value the inverse of the root, not of its square.
PublicSquareUnsquared(secret_root, N) == InverseMod(secret_root, N)

\* Signer.__init__: self.public_square = secret_root^-2
PublicSquare(secret_root, N) == PowMod(InverseMod(secret_root, N), 2, N)

\* Signer.sign: x = r^2
Commitment(r, N) == (r * r) % N

\* Integer.bits(): the binary digits of h, least significant first.
RECURSIVE bits(_)
bits(h) == IF h = 0 THEN <<>> ELSE <<h % 2>> \o bits(h \div 2)

\* Signer.sign: y = r*self.secret_root^e
SignResponse(r, secret_root, e, N) == (r * PowMod(secret_root, e, N)) % N

\* Verifier.verify: z = y^2 * public_square^e
VerifyCommitment(y, public_square, e, N) == (((y * y) % N) * PowMod(public_square, e, N)) % N

\* f(message, x): the recorded digest of an input hashed before, any element
\* of ZN for an input hashed for the first time.
Digests(md5, message, x, N) ==
    IF \E h \in 0..(N - 1) : <<message, x, h>> \in md5
    THEN {h \in 0..(N - 1) : <<message, x, h>> \in md5}
    ELSE 0..(N - 1)

\* The pairs of primes p < q of the cell.
FiatPrimes ==
    {pq \in (3..MaxFiatP) \X (3..MaxFiatP) :
        pq[1] < pq[2] /\ IsPrime(pq[1]) /\ IsPrime(pq[2])}

\* center = NewCenter(); verifier = Verifier(); one pass of the loop body
\* with its message.
InitFiat ==
    /\ HnpOff
    /\ voting = Off
    /\ schnorr = Off
    /\ \E pq \in FiatPrimes : \E message \in 1..MaxMessages :
          fiat = [pc |-> "provision", N |-> pq[1] * pq[2], secret_root |-> None,
                  public_square |-> None, message |-> message, md5 |-> {},
                  r |-> None, x |-> None, e |-> None, y |-> None,
                  z |-> None, calculated_e |-> None, verified |-> FALSE,
                  err |-> "none"]

\* me = center.provision_signer("@kelbyludwig")
ProvisionSigner ==
    /\ fiat.pc = "provision"
    /\ \E secret_root \in 1..(fiat.N - 1) :
          IF InverseMod(secret_root, fiat.N) = 0
          THEN fiat' = [fiat EXCEPT !.secret_root = secret_root,
                                    !.pc = "error", !.err = "ZeroDivisionError"]
          ELSE fiat' = [fiat EXCEPT !.secret_root = secret_root,
                                    !.public_square = PublicSquare(secret_root, fiat.N),
                                    !.pc = "sign"]
    /\ UNCHANGED <<hnp, voting, schnorr>>

\* public_square, e, y = me.sign(message)
SignMessage ==
    /\ fiat.pc = "sign"
    /\ \E r \in 0..(fiat.N - 1) :
          LET x == Commitment(r, fiat.N)
          IN  \E h \in Digests(fiat.md5, fiat.message, x, fiat.N) :
                 LET hashed == [fiat EXCEPT !.r = r, !.x = x,
                                    !.md5 = @ \cup {<<fiat.message, x, h>>}]
                 IN  IF bits(h) = <<>>
                     THEN fiat' = [hashed EXCEPT !.pc = "error", !.err = "IndexError"]
                     ELSE fiat' = [hashed EXCEPT
                                      !.e = bits(h)[1],
                                      !.y = SignResponse(r, fiat.secret_root, bits(h)[1], fiat.N),
                                      !.pc = "verify"]
    /\ UNCHANGED <<hnp, voting, schnorr>>

\* verifier.verify(message, public_square, e, y)
VerifySignature ==
    /\ fiat.pc = "verify"
    /\ LET zv == VerifyCommitment(fiat.y, fiat.public_square, fiat.e, fiat.N)
       IN  \E h \in Digests(fiat.md5, fiat.message, zv, fiat.N) :
              LET hashed == [fiat EXCEPT !.z = zv,
                                 !.md5 = @ \cup {<<fiat.message, zv, h>>}]
              IN  IF bits(h) = <<>>
                  THEN fiat' = [hashed EXCEPT !.pc = "error", !.err = "IndexError"]
                  ELSE fiat' = [hashed EXCEPT !.calculated_e = bits(h)[1],
                                              !.verified = (bits(h)[1] = fiat.e),
                                              !.pc = "assert"]
    /\ UNCHANGED <<hnp, voting, schnorr>>

\* assert(verifier.verify(message, public_square, e, y))
AssertVerify ==
    /\ fiat.pc = "assert"
    /\ fiat' = [fiat EXCEPT !.pc = IF fiat.verified THEN "done" ELSE "error",
                            !.err = IF fiat.verified THEN "none" ELSE "AssertionError"]
    /\ UNCHANGED <<hnp, voting, schnorr>>

NextFiat ==
    \/ ProvisionSigner
    \/ SignMessage
    \/ VerifySignature
    \/ AssertVerify

SpecFiat == InitFiat /\ [][NextFiat]_vars

----------------------------------------------------------------------------
(* Matrices: the coordinates of the rows of one basis in another *)

Minor(M, r, c) ==
    Vector([a \in 1..(Len(M) - 1) |->
        Vector([b \in 1..(Len(M) - 1) |->
            M[IF a < r THEN a ELSE a + 1][IF b < c THEN b ELSE b + 1]])])

RECURSIVE Det(_)
RECURSIVE DetFrom(_, _)
DetFrom(M, c) ==
    IF c > Len(M) THEN <<0, 1>>
    ELSE IF M[1][c][1] = 0 THEN DetFrom(M, c + 1)
    ELSE RAdd(RMul(IF c % 2 = 1 THEN M[1][c] ELSE RNeg(M[1][c]), Det(Minor(M, 1, c))),
              DetFrom(M, c + 1))

Det(M) == IF Len(M) = 1 THEN M[1][1] ELSE DetFrom(M, 1)

Cofactor(M, r, c) ==
    IF Len(M) = 1 THEN <<1, 1>>
    ELSE IF (r + c) % 2 = 0 THEN Det(Minor(M, r, c)) ELSE RNeg(Det(Minor(M, r, c)))

MatInverse(M) ==
    LET det == Det(M)
    IN  Vector([r \in 1..Len(M) |->
            Vector([c \in 1..Len(M) |-> RDiv(Cofactor(M, c, r), det)])])

RECURSIVE RowTimesColumn(_, _, _, _)
RowTimesColumn(x, M, c, j) ==
    IF j > Len(x) THEN <<0, 1>>
    ELSE RAdd(RMul(x[j], M[j][c]), RowTimesColumn(x, M, c, j + 1))

MatMul(X, M) ==
    Vector([r \in 1..Len(X) |->
        Vector([c \in 1..Len(M[1]) |-> RowTimesColumn(X[r], M, c, 1)])])

\* The matrix U with X = U * B: row r holds the coordinates of X[r] in the rows of B.
Coordinates(X, B) == MatMul(X, MatInverse(B))

IsIntegerMatrix(M) == \A r \in 1..Len(M) : \A c \in 1..Len(M[r]) : IsInt(M[r][c])

----------------------------------------------------------------------------
(* Claims *)

\* C1: every pair (t, a) the oracle has returned satisfies
\* |(alpha*t mod p) - a| < p / 2^(k+1), compared exactly (cross-multiplied integers).
C1_OracleBound ==
    \A j \in 1..Len(answers) :
        Abs(((alpha * inputs[j]) % p) - answers[j]) * Pow(2, k + 1) < p

\* C1 witness: all d pairs were returned and one answer differs from its query.
C1_Witness ==
    /\ Len(answers) = d
    /\ \E j \in 1..Len(answers) : answers[j] # (alpha * inputs[j]) % p

\* C2 (as claimed): when the solving cell ends, it has recovered alpha and its
\* assertion recovered_alpha == alpha held.
C2_AssertionHolds ==
    pc \in {"done", "error"} => (recovered_alpha = alpha /\ err = "none")

\* C3: with k = n the cell never ends in an error, and it ends with
\* recovered_alpha = alpha, whatever alpha and t_1..t_d are.
C3_ExactRecovery ==
    /\ pc # "error"
    /\ err = "none"
    /\ pc = "done" => recovered_alpha = alpha

\* C3 witness: a run with k = n, more than one query and alpha > 1 has ended.
C3_Witness ==
    /\ k = CeilLog2(p)
    /\ pc = "done"
    /\ Len(inputs) > 1
    /\ alpha > 1
    /\ \A j \in 1..Len(answers) : answers[j] = (alpha * inputs[j]) % p

\* C4: when k = n = ceil(log2 p), the only z msb's test accepts is the query
\* itself, so every answer returned equals alpha*t mod p.
C4_OnlyQueryAccepted ==
    k = CeilLog2(p) =>
        /\ \A j \in 1..Len(answers) : answers[j] = (alpha * inputs[j]) % p
        /\ pc = "msb" =>
              {zz \in 1..(p - 1) : MsbAccepts(p, k, OracleQuery(alpha, random_t, p), zz)}
                = {OracleQuery(alpha, random_t, p)}

\* C4 witness: with k = n and p > 3 the oracle returned all d answers and the
\* basis was built from them.
C4_Witness ==
    /\ k = CeilLog2(p)
    /\ Len(answers) = d
    /\ pc = "solve"
    /\ p > 3

\* C5: build_basis returns a (d+1)x(d+1) matrix: row j <= d has p at column j
\* and 0 elsewhere, row d+1 is (t_1, ..., t_d, 1/p).
C5_BasisShape ==
    pc = "solve" =>
        /\ Len(lattice) = d + 1
        /\ \A r \in 1..(d + 1) : Len(lattice[r]) = d + 1
        /\ \A r \in 1..d : \A c \in 1..(d + 1) :
              lattice[r][c] = IF r = c THEN <<p, 1>> ELSE <<0, 1>>
        /\ \A c \in 1..d : lattice[d + 1][c] = <<inputs[c], 1>>
        /\ lattice[d + 1][d + 1] = <<1, p>>

\* C5 witness: a basis was built from more than one query input.
C5_Witness == pc = "solve" /\ Len(lattice) > 2

\* C6: the reduced basis spans the lattice of the input basis: the coordinates
\* of each reduced row in the input rows are integers, those of each input row
\* in the reduced rows are integers, and the transform has determinant 1 or -1.
C6_SameLattice ==
    pc \in {"plane", "recover", "done", "error"} =>
        LET U == Coordinates(BL, lattice)
        IN  /\ IsIntegerMatrix(U)
            /\ IsIntegerMatrix(Coordinates(lattice, BL))
            /\ Abs(Det(U)[1]) = 1

\* C6 witness: LLL() returned a basis that differs from the one it was given.
C6_Witness == pc = "plane" /\ BL # lattice /\ Len(BL) > 2

\* C8 (as claimed): with k >= n the oracle returns no answer and signals an
\* error.
C8_ConfigurationError ==
    k >= CeilLog2(p) => (answers = <<>> /\ (pc = "msb" => err # "none"))

\* C8 (amended): with k >= n the oracle signals no error, and in every round of
\* msb's loop some z is accepted (the target interval is not empty).
C8_NeverEmpty ==
    k >= CeilLog2(p) =>
        /\ err = "none"
        /\ pc # "error"
        /\ pc = "msb" =>
              \E zz \in 1..(p - 1) : MsbAccepts(p, k, OracleQuery(alpha, random_t, p), zz)

\* C8 witness: with k > n the oracle returned all d answers.
C8_Witness == k > CeilLog2(p) /\ Len(answers) = d /\ err = "none"

C10_RecoveryChecked ==
    pc \in {"done", "error"} =>
        LET solved == VSub(u, small)
            prod   == RMul(solved[Len(solved)], QQ(p))
        IN  IF IsInt(prod) THEN recovered_alpha = prod[1] % p
            ELSE err = "RecoveryInconsistency"

\* C11 (as claimed): whenever recovered_alpha has been assigned, it lies in
\* 1..p-1; it is never 0.
C11_CandidateInRange ==
    recovered_alpha # None => recovered_alpha \in 1..(p - 1)

\* C18 (as claimed): the list approximate_closest_vector returns has d+1
\* entries and equals the target minus the final residual position by
\* position, zero coordinates kept.
C18_FullVector ==
    pc \in {"recover", "done", "error"} /\ err # "ValueError" =>
        /\ Len(v) = d + 1
        /\ v = VSub(u, small)

\* <x, Gi> / <Gi, Gi>: the coefficient of x on the orthogonal row Gi.
ProjectionCoefficient(x, Gi) == RDiv(Dot(x, Gi), Dot(Gi, Gi))

\* The residual's coefficient lies in [-1/2, 1/2] on every row the loop has
\* processed (rows i+1..n; all rows once the loop has ended).
ResidualReduced ==
    pc \in {"plane", "recover", "done", "error"} =>
        \A j \in (i + 1)..Len(G) :
            RLe(RAbs(ProjectionCoefficient(small, G[j])), <<1, 2>>)

\* A pass of the loop subtracts c times row i, for an integer c within 1/2 of
\* the coefficient of the working vector on G[i].
NearestIntegerStep ==
    (pc = "plane" /\ i > 0 /\ i' = i - 1) =>
        LET mu == ProjectionCoefficient(small, G[i])
            fl == mu[1] \div mu[2]
        IN  \E c \in {fl, fl + 1} :
                /\ RLe(RAbs(RSub(mu, QQ(c))), <<1, 2>>)
                /\ small' = VSub(small, VScale(BL[i], QQ(c)))

\* C19: each c_i is an integer nearest to <working, G_i> / <G_i, G_i>, and the
\* residual's coefficient on G_j stays in [-1/2, 1/2] for every row j already
\* processed, so for every row when the loop ends.
C19_NearestPlane == []ResidualReduced /\ [][NearestIntegerStep]_vars

\* C19 witness: the loop has ended after subtracting something, and left a
\* residual that is not zero, on a basis of three rows.
C19_Witness ==
    /\ pc = "recover"
    /\ Len(G) = 3
    /\ small # u
    /\ \E j \in 1..Len(small) : small[j][1] # 0
    /\ \E j \in 1..Len(G) : ProjectionCoefficient(small, G[j]) = <<1, 2>>

\* C20: target minus residual is an integer combination of the rows of the
\* basis (and of the reduced basis), so its last coordinate times p is an
\* integer and the reduction modulo p meets no fraction.
C20_LatticePoint ==
    pc \in {"plane", "recover", "done", "error"} =>
        LET solved == VSub(u, small)
        IN  /\ IsIntegerMatrix(Coordinates(<<solved>>, lattice))
            /\ IsIntegerMatrix(Coordinates(<<solved>>, BL))
            /\ IsInt(RMul(solved[Len(solved)], QQ(p)))
            /\ err # "ZeroDivisionError"

\* C20 witness: the solver returned a vector whose last coordinate is a proper
\* fraction, and the recovery step has run on it.
C20_Witness ==
    /\ pc \in {"done", "error"}
    /\ VSub(u, small)[Len(u)][2] # 1
    /\ recovered_alpha # None

\* C13 (as claimed): whatever other cells assign in between, every answer of
\* the attempt's oracle is within p / 2^(k+1) of alpha*t mod p for the p and k
\* the oracle was created under, build_basis raises nothing and the basis it
\* returns is the one for the attempt's p and d.
C13_AttemptIsolated ==
    /\ \A j \in 1..Len(answers) :
          Abs(((alpha * inputs[j]) % attempt.p) - answers[j]) * Pow(2, attempt.k + 1)
            < attempt.p
    /\ err = "none"
    /\ pc = "solve" => lattice = BasisVectors(attempt.p, attempt.d, inputs)

\* C14: the derived parameters are k = s + l and d = 2s, where n is the least
\* exponent with p <= 2^n, s the least integer with n <= s^2 and l the least
\* exponent with n <= 2^l; d is positive; and for p = 65537 they are n = 17,
\* k = 10, d = 10 with 0 < k < n.
C14_DerivedParameters ==
    pc = "derived" =>
        \E nn \in 1..30, ss \in 1..30, ll \in 1..30 :
            /\ Pow(2, nn - 1) < p /\ p <= Pow(2, nn)
            /\ (ss - 1) * (ss - 1) < nn /\ nn <= ss * ss
            /\ Pow(2, ll - 1) < nn /\ nn <= Pow(2, ll)
            /\ k = ss + ll
            /\ d = 2 * ss
            /\ d > 0
            /\ p = 65537 => (nn = 17 /\ k = 10 /\ d = 10 /\ 0 < k /\ k < nn)

\* C14 witness: the parameters were derived for the notebook's p = 65537.
C14_Witness == pc = "derived" /\ p = 65537 /\ k = 10 /\ d = 10

\* C15: for every vote and every blinding value r invertible modulo N, the
\* unblinded signature passes verify_vote: its e-th power is the vote. The
\* cell fails only when the r it drew is not invertible.
C15_BlindRoundTrip ==
    voting.pc \in {"verify", "done", "error"} =>
        IF Gcd(voting.drawn, voting.N) = 1
        THEN /\ voting.pc # "error"
             /\ PowMod(voting.signature, voting.e, voting.N) = voting.vote
             /\ voting.pc = "done" => voting.verified
        ELSE voting.err = "ZeroDivisionError"

\* C15 witness: a vote other than 0 and 1, blinded by an invertible r other
\* than 1 and signed with an exponent d other than 1, was verified.
C15_Witness ==
    /\ voting.pc = "done"
    /\ voting.verified
    /\ voting.vote > 1
    /\ voting.drawn > 1
    /\ voting.d > 1
    /\ voting.blind_vote # voting.vote
    /\ Gcd(voting.vote, voting.N) # 1

\* C16: for every secret key (or list of keys), every nonce (or list of
\* nonces) and every challenge in 1..2^k, the verifier's check of the honest
\* response returns true: the assertion of run_protocol never fails.
C16_SchnorrComplete ==
    /\ schnorr.pc # "error"
    /\ schnorr.pc = "done" => schnorr.checked

\* C16 witness: a proof of a representation in two bases was accepted, with a
\* challenge above q and a response that wrapped around modulo q.
C16_Witness ==
    /\ schnorr.pc = "done"
    /\ schnorr.cell = "general"
    /\ Len(schnorr.gs) = 2
    /\ schnorr.gs[1] # schnorr.gs[2]
    /\ schnorr.challenge_number > schnorr.q
    /\ \E j \in 1..2 : schnorr.response[j] > schnorr.rs[j]

\* C17: for a signer whose secret root is invertible modulo N and any message,
\* the verifier recomputes the signer's commitment, z = y^2 * public_square^e
\* = x = r^2, from the triple that sign returned, and verify returns true; the
\* cell stops only when the root is not invertible or sign returned no triple.
C17_SignatureComplete ==
    /\ fiat.pc \in {"assert", "done"} =>
          /\ fiat.z = fiat.x
          /\ fiat.x = Commitment(fiat.r, fiat.N)
          /\ fiat.calculated_e = fiat.e
          /\ fiat.verified
    /\ fiat.pc = "error" =>
          \/ fiat.err = "ZeroDivisionError" /\ Gcd(fiat.secret_root, fiat.N) # 1
          \/ fiat.err = "IndexError" /\ fiat.y = None

C17_Witness ==
    /\ fiat.pc = "done"
    /\ fiat.verified
    /\ fiat.e = 1
    /\ fiat.secret_root > 1
    /\ fiat.public_square > 1
    /\ fiat.r > 1
    /\ fiat.y # fiat.r
    /\ fiat.message > 1

\* C21: the basis the nearest-plane loop works on is LLL-reduced: every
\* Gram-Schmidt coefficient mu_{a,j} (j < a) is at most 1/2 in absolute value,
\* and every adjacent pair satisfies the Lovasz condition
\* |G_{a+1}|^2 >= (3/4 - mu_{a+1,a}^2) |G_a|^2.
C21_LLLReduced ==
    pc \in {"plane", "recover", "done", "error"} =>
        /\ \A a \in 1..Len(BL) : \A j \in 1..(a - 1) :
              RLe(RAbs(ProjectionCoefficient(BL[a], G[j])), <<1, 2>>)
        /\ \A a \in 1..(Len(BL) - 1) :
              LET mu == ProjectionCoefficient(BL[a + 1], G[a])
              IN  RLe(RMul(RSub(<<3, 4>>, RMul(mu, mu)), Dot(G[a], G[a])),
                      Dot(G[a + 1], G[a + 1]))

\* C21 witness: the loop starts on a three-row basis that the reduction
\* changed and whose rows are not orthogonal.
C21_Witness ==
    /\ pc = "plane"
    /\ i = Len(BL)
    /\ Len(BL) = 3
    /\ BL # lattice
    /\ \E a \in 2..3 : \E j \in 1..(a - 1) : ProjectionCoefficient(BL[a], G[j])[1] # 0

\* C22: approximate_closest_vector leaves its arguments unchanged: during and
\* after the call the basis matrix and the target vector hold the entries they
\* were built with, while the reduction and the residual work on BL and small.
C22_ArgumentsUnchanged ==
    /\ lattice = BasisVectors(p, d, inputs)
    /\ u = VecQQ(Append(answers, 0))

\* C22 witness: the call returned after the reduction produced a basis other
\* than its argument and the loop a residual other than the target.
C22_Witness ==
    /\ pc = "recover"
    /\ BL # lattice
    /\ small # u
    /\ lattice = BasisVectors(p, d, inputs)
    /\ u = VecQQ(Append(answers, 0))

\* C23: the query alpha*t mod p that oracle() passes to msb lies in [1, p-1]
\* and the candidate z = query passes msb's test, so some draw is accepted
\* and, the draws being fair, every call of msb returns.
QueryAccepted ==
    pc = "msb" =>
        LET query == OracleQuery(alpha, random_t, p)
        IN  /\ query \in 1..(p - 1)
            /\ MsbAccepts(p, k, query, query)

C23_MsbTerminates == []QueryAccepted /\ (pc = "msb" ~> pc # "msb")

\* C23 witness: msb is in its loop on a query other than 1 and its last draw
\* was rejected.
C23_Witness ==
    /\ pc = "msb"
    /\ k >= 1
    /\ OracleQuery(alpha, random_t, p) > 1
    /\ z \in 1..(p - 1)
    /\ ~MsbAccepts(p, k, OracleQuery(alpha, random_t, p), z)

\* C24: on one Voter, blind_vote succeeds only when no blinding value is
\* pending and unblind_vote only when one is, so successful calls alternate
\* blind, unblind, blind, ...; a successful unblind_vote clears the blinding
\* value; an unblind_vote that fails on a non-invertible blinding value
\* leaves it set, and every later blind_vote on that Voter fails its assertion.
VoterCall ==
    LET ok == voting'.outcome = "ok"
    IN  /\ (voting'.last = "blind" /\ ok) =>
              /\ voting.r = None
              /\ voting'.r # None
              /\ voting.lastok \in {"none", "unblind"}
        /\ (voting'.last = "unblind" /\ ok) =>
              /\ voting.r # None
              /\ voting'.r = None
              /\ voting.lastok = "blind"
        /\ (voting'.last = "blind" /\ voting.r # None) =>
              /\ voting'.outcome = "AssertionError"
              /\ voting'.r = voting.r
        /\ (voting'.last = "unblind" /\ voting.r = None) =>
              /\ voting'.outcome = "AssertionError"
              /\ voting'.r = None
        /\ voting'.outcome = "ZeroDivisionError" =>
              /\ voting'.last = "unblind"
              /\ voting'.r = voting.r
              /\ voting.r # None
              /\ Gcd(voting.r, voting.N) # 1
        /\ voting.stuck =>
              /\ voting'.stuck
              /\ voting'.r = voting.r
              /\ voting'.last = "blind" => voting'.outcome = "AssertionError"

C24_Alternation == [][VoterCall]_vars

\* C24 witness: after a full round of blind_vote and unblind_vote, a second
\* blind_vote drew a non-invertible value, unblind_vote failed on it, and the
\* next blind_vote failed its assertion.
C24_Witness ==
    /\ voting.pc = "calls"
    /\ voting.rounds = 1
    /\ voting.stuck
    /\ voting.lastok = "blind"
    /\ voting.last = "blind"
    /\ voting.outcome = "AssertionError"
    /\ voting.r > 0

====
